---- MODULE Spec2Model ----
(***************************************************************************)
(* Request authorization routing of proxy.ts: the route matchers built by  *)
(* createRouteMatcher and the ordered rules of proxy(req).                 *)
(*                                                                         *)
(* A request is the part of a NextRequest that proxy reads: the pathname   *)
(* of its URL, the decoded session cookie and the sign-in attempt cookie.  *)
(* Paths, slugs and cookie values are strings; the matchers work on them   *)
(* character by character, as the JavaScript string functions do.          *)
(***************************************************************************)
EXTENDS Integers, Sequences, FiniteSets, TLC

VARIABLES
    req,       \* the request being handled
    res,       \* the response proxy returned for it, or Pending
    line,      \* source line of the return statement that produced res (0: none yet)
    matchers,  \* the route lists held by the module-level matchers
    trail,     \* the paths requested before req on the current chain of redirects
    memo       \* an earlier request and the response it got, or None

vars == <<req, res, line, matchers, trail, memo>>

-----------------------------------------------------------------------------
(* Optional values: <<>> is null / undefined, <<v>> is the value v.        *)

None == <<>>

Some(v) == <<v>>

\* a test against null in place of truthiness: "" passes
Truthy_notNull(opt) == opt # None

\* JavaScript truthiness of an optional string: null, undefined and "" are falsy.
Truthy(opt) == opt # None /\ opt[1] # ""

-----------------------------------------------------------------------------
(* String functions used by createRouteMatcher.                            *)

\* String.prototype.startsWith
startsWith(s, prefix) ==
    /\ Len(prefix) <= Len(s)
    /\ SubSeq(s, 1, Len(prefix)) = prefix

\* String.prototype.indexOf, 1-based; 0 when sub does not occur in s
indexOf(s, sub) ==
    LET hits == {i \in 1..(Len(s) - Len(sub) + 1) : SubSeq(s, i, i + Len(sub) - 1) = sub}
    IN  IF hits = {} THEN 0 ELSE CHOOSE i \in hits : \A j \in hits : i <= j

\* String.prototype.includes
includes(s, sub) == indexOf(s, sub) # 0

\* String.prototype.replace with a string pattern: the first occurrence only
replace(s, sub, by) ==
    LET i == indexOf(s, sub)
    IN  IF i = 0 THEN s
        ELSE SubSeq(s, 1, i - 1) \o by \o SubSeq(s, i + Len(sub), Len(s))

-----------------------------------------------------------------------------
(* createRouteMatcher and the seven matchers built with it.                *)

Wildcard == "(.*)"

\* the wildcard looked for first: a wildcard route never compared literally
routeMatches_wildcardFirst(route, pathname) ==
    IF includes(route, Wildcard)
    THEN LET baseRoute == replace(route, Wildcard, "")
         IN  pathname = baseRoute \/ startsWith(pathname, baseRoute \o "/")
    ELSE route = pathname

\* the callback given to routes.some: does this one route match pathname?
routeMatches(route, pathname) ==
    IF route = pathname THEN TRUE
    ELSE IF includes(route, Wildcard)
         THEN LET baseRoute == replace(route, Wildcard, "")
              IN  pathname = baseRoute \/ startsWith(pathname, baseRoute \o "/")
         ELSE FALSE

createRouteMatcher(routes, request) ==
    \E i \in 1..Len(routes) : routeMatches(routes[i], request.pathname)

\* the organization pages listed as public
PublicRoutes_withOrg ==
    << "/", "/home", "/sign-in(.*)", "/sign-up(.*)", "/privacy", "/terms", "/org(.*)" >>

PublicRoutes ==
    << "/", "/home", "/sign-in(.*)", "/sign-up(.*)", "/privacy", "/terms",
       "/robots.txt", "/sitemap.xml", "/favicon.ico", "/favicon.svg",
       "/favicon-96x96.png", "/apple-touch-icon.png", "/opengraph-image.png" >>

\* the route lists the seven module-level matchers are created with
StartupMatchers ==
    [ isPublicRoute       |-> PublicRoutes,
      isOnboardingRoute   |-> <<"/onboarding">>,
      isRootRoute         |-> <<"/">>,
      isProtectedRoute    |-> <<"/org(.*)", "/settings(.*)">>,
      isApiRoute          |-> <<"/api(.*)">>,
      isSignInVerifyRoute |-> <<"/sign-in/verify", "/sign-up/verify-email-address">>,
      isAuthRoute         |-> <<"/sign-in(.*)", "/sign-up(.*)">> ]

\* each matcher closes over its own route list and reads it at every call
isPublicRoute(request) == createRouteMatcher(matchers.isPublicRoute, request)

isOnboardingRoute(request) == createRouteMatcher(matchers.isOnboardingRoute, request)

isRootRoute(request) == createRouteMatcher(matchers.isRootRoute, request)

isProtectedRoute(request) == createRouteMatcher(matchers.isProtectedRoute, request)

isApiRoute(request) == createRouteMatcher(matchers.isApiRoute, request)

isSignInVerifyRoute(request) == createRouteMatcher(matchers.isSignInVerifyRoute, request)

isAuthRoute(request) == createRouteMatcher(matchers.isAuthRoute, request)

-----------------------------------------------------------------------------
(* Responses.  A redirect carries the URL it was built from: new URL(path, *)
(* req.url) keeps the origin of the request and takes path as pathname;   *)
(* searchParams is the list of <<key, value>> pairs set on it.            *)

Pending == [type |-> "pending"]

NextResponse_next == [type |-> "next"]

URL(path) == [pathname |-> path, searchParams |-> <<>>]

searchParams_set(url, key, value) ==
    [url EXCEPT !.searchParams = << <<key, value>> >>]

NextResponse_redirect(url) == [type |-> "redirect", url |-> url]

\* what a return statement yields: the response and the line it stands on
Return(response, at) == [response |-> response, line |-> at]

-----------------------------------------------------------------------------
(* proxy(req), rule by rule.                                               *)

\* const isAuthenticated = !!sessionData?.session
isAuthenticated(request) == request.sessionData # None

\* the slug taken from somewhere else than the session: set without a session
activeOrganizationSlug_detached(request) ==
    IF request.sessionData = None THEN Some("a")
    ELSE request.sessionData[1].activeOrganizationSlug

\* const activeOrganizationSlug = sessionData?.session?.activeOrganizationSlug ?? null
activeOrganizationSlug(request) ==
    IF request.sessionData = None THEN None
    ELSE request.sessionData[1].activeOrganizationSlug

\* req.cookies.get(SIGN_IN_ATTEMPT_EMAIL_COOKIE)?.value
attemptEmail(request) == request.cookie

\* the cookie tested for presence, not for a value: attemptEmail !== undefined
signInVerifyBranch_presence(request) ==
    IF attemptEmail(request) # None THEN Return(NextResponse_next, 69)
    ELSE Return(NextResponse_redirect(URL("/sign-in")), 70)

\* the verification gate left open: the attempt cookie is not looked at
signInVerifyBranch_noGate(request) == Return(NextResponse_next, 69)

\* the verification redirect given the return path of the sign-in redirect
signInVerifyBranch_withQuery(request) ==
    IF Truthy(attemptEmail(request)) THEN Return(NextResponse_next, 69)
    ELSE Return(NextResponse_redirect(
                    searchParams_set(URL("/sign-in"), "redirect", request.pathname)), 70)

\* body of: if (isSignInVerifyRoute(req)) { ... }
signInVerifyBranch(request) ==
    IF Truthy(attemptEmail(request)) THEN Return(NextResponse_next, 69)
    ELSE Return(NextResponse_redirect(URL("/sign-in")), 70)

\* a null test in place of truthiness: an empty slug counts as an organization
hasOrganization_notNull(request) ==
    isAuthenticated(request) /\ activeOrganizationSlug(request) # None

\* condition of: if (isAuthenticated && activeOrganizationSlug)
hasOrganization(request) ==
    isAuthenticated(request) /\ Truthy(activeOrganizationSlug(request))

\* the organization's root in place of its dashboard
dashboardPath_orgRoot(request) ==
    "/org/" \o activeOrganizationSlug(request)[1]

\* `/org/${activeOrganizationSlug}/dashboard`
dashboardPath(request) ==
    "/org/" \o activeOrganizationSlug(request)[1] \o "/dashboard"

\* protected routes let through only below the session's own organization
organizationBranch_ownOrgOnly(request) ==
    IF /\ isProtectedRoute(request)
       /\ \/ ~startsWith(request.pathname, "/org/")
          \/ startsWith(request.pathname, "/org/" \o activeOrganizationSlug(request)[1] \o "/")
    THEN Return(NextResponse_next, 75)
    ELSE IF isPublicRoute(request) /\ ~isRootRoute(request) /\ ~isAuthRoute(request)
         THEN Return(NextResponse_next, 76)
    ELSE Return(NextResponse_redirect(URL(dashboardPath(request))), 77)

\* without the line that lets protected routes through
organizationBranch_noProtected(request) ==
    IF isPublicRoute(request) /\ ~isRootRoute(request) /\ ~isAuthRoute(request)
    THEN Return(NextResponse_next, 76)
    ELSE Return(NextResponse_redirect(URL(dashboardPath(request))), 77)

\* without the !isAuthRoute(req) conjunct
organizationBranch_authExempt(request) ==
    IF isProtectedRoute(request) THEN Return(NextResponse_next, 75)
    ELSE IF isPublicRoute(request) /\ ~isRootRoute(request)
         THEN Return(NextResponse_next, 76)
    ELSE Return(NextResponse_redirect(URL(dashboardPath(request))), 77)

\* without the line that lets public pages through
organizationBranch_noPublic(request) ==
    IF isProtectedRoute(request) THEN Return(NextResponse_next, 75)
    ELSE Return(NextResponse_redirect(URL(dashboardPath(request))), 77)

\* body of: if (isAuthenticated && activeOrganizationSlug) { ... }
organizationBranch(request) ==
    IF isProtectedRoute(request) THEN Return(NextResponse_next, 75)
    ELSE IF isPublicRoute(request) /\ ~isRootRoute(request) /\ ~isAuthRoute(request)
         THEN Return(NextResponse_next, 76)
    ELSE Return(NextResponse_redirect(URL(dashboardPath(request))), 77)

\* condition of: if (isAuthenticated && isOnboardingRoute(req))
onboardingRevisit(request) ==
    isAuthenticated(request) /\ isOnboardingRoute(request)

\* without the !isPublicRoute(req) conjunct
unauthenticatedNonPublic_anyPath(request) == ~isAuthenticated(request)

\* condition of: if (!isAuthenticated && !isPublicRoute(req))
unauthenticatedNonPublic(request) ==
    ~isAuthenticated(request) /\ ~isPublicRoute(request)

\* the requested path appended to the target instead of passed as parameter
signInRedirect_toPath(request) ==
    Return(NextResponse_redirect(URL("/sign-in" \o request.pathname)), 89)

\* without the searchParams.set line
signInRedirect_noQuery(request) ==
    Return(NextResponse_redirect(URL("/sign-in")), 89)

\* body of: if (!isAuthenticated && !isPublicRoute(req)) { ... }
signInRedirect(request) ==
    LET signInUrl == searchParams_set(URL("/sign-in"), "redirect", request.pathname)
    IN  Return(NextResponse_redirect(signInUrl), 89)

\* a null test in place of the negation: an empty slug is not "no organization"
noOrganization_nullOnly(request) ==
    isAuthenticated(request) /\ activeOrganizationSlug(request) = None

\* condition of: if (isAuthenticated && !activeOrganizationSlug)
noOrganization(request) ==
    isAuthenticated(request) /\ ~Truthy(activeOrganizationSlug(request))

\* without the loop guard: every path is sent to /onboarding
onboardingBranch_noGuard(request) ==
    Return(NextResponse_redirect(URL("/onboarding")), 96)

\* the loop guard inverted
onboardingBranch_inverted(request) ==
    IF isOnboardingRoute(request)
    THEN Return(NextResponse_redirect(URL("/onboarding")), 96)
    ELSE Return(NextResponse_next, 98)

\* body of: if (isAuthenticated && !activeOrganizationSlug) { ... }
onboardingBranch(request) ==
    IF ~isOnboardingRoute(request)
    THEN Return(NextResponse_redirect(URL("/onboarding")), 96)
    ELSE Return(NextResponse_next, 98)

\* without the API bypass of the first line
proxy_noApiBypass(request) ==
    IF isSignInVerifyRoute(request) THEN signInVerifyBranch(request)
    ELSE IF hasOrganization(request) THEN organizationBranch(request)
    ELSE IF onboardingRevisit(request) THEN Return(NextResponse_next, 82)
    ELSE IF unauthenticatedNonPublic(request) THEN signInRedirect(request)
    ELSE IF noOrganization(request) THEN onboardingBranch(request)
    ELSE Return(NextResponse_next, 102)

\* without the final return: the function ends and yields undefined
proxy_noFallback(request) ==
    IF isApiRoute(request) THEN Return(NextResponse_next, 60)
    ELSE IF isSignInVerifyRoute(request) THEN signInVerifyBranch(request)
    ELSE IF hasOrganization(request) THEN organizationBranch(request)
    ELSE IF onboardingRevisit(request) THEN Return(NextResponse_next, 82)
    ELSE IF unauthenticatedNonPublic(request) THEN signInRedirect(request)
    ELSE IF noOrganization(request) THEN onboardingBranch(request)
    ELSE Return([type |-> "undefined"], 103)

proxy(request) ==
    IF isApiRoute(request) THEN Return(NextResponse_next, 60)
    ELSE IF isSignInVerifyRoute(request) THEN signInVerifyBranch(request)
    ELSE IF hasOrganization(request) THEN organizationBranch(request)
    ELSE IF onboardingRevisit(request) THEN Return(NextResponse_next, 82)
    ELSE IF unauthenticatedNonPublic(request) THEN signInRedirect(request)
    ELSE IF noOrganization(request) THEN onboardingBranch(request)
    ELSE Return(NextResponse_next, 102)

-----------------------------------------------------------------------------
(* The requests considered.  A pathname is "/" followed by up to MaxSegs   *)
(* segments joined by "/": the first segment ranges over FirstSegs, the    *)
(* following ones over SubSegs.  The empty segment gives the root path and *)
(* trailing slashes.                                                       *)

MaxSegs == 3

FirstSegs ==
    { "", "home", "sign-in", "sign-in-extra", "sign-up", "onboarding", "org",
      "settings", "api", "api(.*)", "sign-in(.*)", "privacy", "terms",
      "favicon.ico", "Home", "a" }

SubSegs == { "", "verify", "verify-email-address", "a", "dashboard", "api" }

RECURSIVE PathsUpTo(_)
PathsUpTo(n) ==
    IF n <= 1 THEN {"/" \o s : s \in FirstSegs}
    ELSE LET shorter == PathsUpTo(n - 1)
         IN  shorter \cup {p \o "/" \o s : p \in shorter, s \in SubSegs}

Pathnames == PathsUpTo(MaxSegs)

\* organization slugs a session may carry; "" is a slug that is set but empty
Slugs == {"", "a", "b"}

\* getSessionFromCookie(req): null, or session data whose session has a slug or none
SessionDatas ==
    {None} \cup {Some([activeOrganizationSlug |-> slug]) :
                    slug \in {None} \cup {Some(s) : s \in Slugs}}

\* the sign-in attempt cookie: absent, empty, or an e-mail address
AttemptEmails == {None, Some(""), Some("test@example.com")}

Requests ==
    [pathname : Pathnames, sessionData : SessionDatas, cookie : AttemptEmails]

-----------------------------------------------------------------------------
(* One request arrives (Init), proxy answers it (Proxy); when the answer   *)
(* is a redirect, the client requests the target with the same cookies     *)
(* (Follow).                                                               *)

\* redirects a client follows before it gives up
MaxHops == 3

Init ==
    /\ req \in Requests
    /\ res = Pending
    /\ line = 0
    /\ matchers = StartupMatchers
    /\ trail = <<>>
    /\ memo = None

\* a matcher that walks its route list destructively (routes.shift())
Proxy_consumesRoutes ==
    /\ res = Pending
    /\ LET r == proxy(req)
       IN  /\ res' = r.response
           /\ line' = r.line
    /\ matchers' = [matchers EXCEPT !.isPublicRoute = Tail(@)]
    /\ UNCHANGED <<req, trail, memo>>

\* one call of proxy: nothing but the response is produced
Proxy ==
    /\ res = Pending
    /\ LET r == proxy(req)
       IN  /\ res' = r.response
           /\ line' = r.line
    /\ UNCHANGED <<req, matchers, trail, memo>>

\* the client follows NextResponse.redirect(url): it requests the pathname of
\* url, with the session cookie and the attempt cookie it sent before
Follow ==
    /\ res # Pending
    /\ res.type = "redirect"
    /\ Len(trail) < MaxHops
    /\ req' = [req EXCEPT !.pathname = res.url.pathname]
    /\ trail' = Append(trail, req.pathname)
    /\ res' = Pending
    /\ line' = 0
    /\ UNCHANGED <<matchers, memo>>

Next == Proxy \/ Follow

Spec == Init /\ [][Next]_vars

-----------------------------------------------------------------------------
(* Many requests, one after the other, served by the same module instance. *)
(* proxy has no await, so a call runs to its return before the next call   *)
(* starts; calls of different requests interleave only as whole calls.     *)

RepeatPathnames ==
    { "/", "/home", "/sign-in", "/sign-in/verify", "/onboarding",
      "/org/a/dashboard", "/settings", "/api/a", "/a" }

RepeatRequests ==
    [pathname : RepeatPathnames, sessionData : SessionDatas, cookie : AttemptEmails]

InitRepeat ==
    /\ req \in RepeatRequests
    /\ res = Pending
    /\ line = 0
    /\ matchers = StartupMatchers
    /\ trail = <<>>
    /\ memo = None

\* the next request reaches the same module instance
Arrive ==
    /\ res # Pending
    /\ req' \in RepeatRequests
    /\ res' = Pending
    /\ line' = 0
    /\ trail' = <<>>
    /\ UNCHANGED <<matchers, memo>>

\* an observer notes the request just decided and its response
Remember ==
    /\ res # Pending
    /\ memo' = Some([req |-> req, res |-> res])
    /\ UNCHANGED <<req, res, line, matchers, trail>>

NextRepeat == Proxy \/ Arrive \/ Remember

SpecRepeat == InitRepeat /\ [][NextRepeat]_vars

-----------------------------------------------------------------------------
(* Vocabulary of the properties.  A path is in a category when the         *)
(* category's matcher accepts the request.  The session states are read    *)
(* off the session cookie; the attempt marker off the attempt cookie.      *)

Decided == res # Pending

Allow == res = NextResponse_next

\* a redirect to target that carries no query parameters
RedirectTo(target) ==
    res = [type |-> "redirect", url |-> [pathname |-> target, searchParams |-> <<>>]]

Unauthenticated == req.sessionData = None

AuthenticatedNoOrg ==
    req.sessionData # None /\ req.sessionData[1].activeOrganizationSlug = None

\* authenticated with the non-empty active organization slug s
AuthenticatedWithOrg(s) ==
    req.sessionData # None /\ req.sessionData[1].activeOrganizationSlug = Some(s) /\ s # ""

OrgSlugs == Slugs \ {""}

MarkerPresent == req.cookie # None /\ req.cookie[1] # ""

MarkerAbsent == req.cookie = None

DashboardOf(s) == "/org/" \o s \o "/dashboard"

SignInVerifyPaths == {"/sign-in/verify", "/sign-up/verify-email-address"}

-----------------------------------------------------------------------------
\* C1  API immunity: a request whose path is in the api category (/api or
\* anything under /api/) is answered with NextResponse.next(), whatever the
\* session state and the attempt cookie are; API traffic is never redirected.
C1_ApiImmunity ==
    (/\ Decided
     /\ \/ isApiRoute(req)
        \/ req.pathname = "/api"
        \/ startsWith(req.pathname, "/api/"))
    => Allow

\* an organization member's API call, which the organization rule would redirect
C1_Witness ==
    /\ Decided
    /\ req.pathname = "/api/a"
    /\ AuthenticatedWithOrg("a")
    /\ MarkerAbsent
    /\ Allow
    /\ line = 60

\* C2  Verification gate: on each of the two verification paths the request
\* is allowed when the attempt marker is present (a non-empty cookie value)
\* and redirected to /sign-in, without query, when the cookie is absent; the
\* session state does not enter the decision.
C2_VerificationGate ==
    (Decided /\ req.pathname \in SignInVerifyPaths)
    => /\ MarkerPresent => Allow
       /\ MarkerAbsent => RedirectTo("/sign-in")

\* an organization member without attempt cookie is sent back to /sign-in
C2_Witness ==
    /\ Decided
    /\ req.pathname = "/sign-up/verify-email-address"
    /\ AuthenticatedWithOrg("a")
    /\ MarkerAbsent
    /\ RedirectTo("/sign-in")

\* C3  An unauthenticated request whose path is neither public nor api is
\* redirected to /sign-in with the single query parameter redirect, whose
\* value is the requested path.
C3_UnauthenticatedNonPublic ==
    (/\ Decided
     /\ Unauthenticated
     /\ ~isPublicRoute(req)
     /\ ~isApiRoute(req))
    => res = [type |-> "redirect",
              url  |-> [pathname     |-> "/sign-in",
                        searchParams |-> << <<"redirect", req.pathname>> >>]]

\* an unauthenticated visit of an organization dashboard
C3_Witness ==
    /\ Decided
    /\ Unauthenticated
    /\ req.pathname = "/org/a/dashboard"
    /\ res.type = "redirect"
    /\ res.url.searchParams = << <<"redirect", "/org/a/dashboard">> >>

\* C4  An unauthenticated request whose path is public and is not one of the
\* verification paths is allowed, whatever the attempt cookie is.
C4_UnauthenticatedPublic ==
    (/\ Decided
     /\ Unauthenticated
     /\ isPublicRoute(req)
     /\ req.pathname \notin SignInVerifyPaths)
    => Allow

\* /terms without a session, with an attempt cookie around
C4_Witness ==
    /\ Decided
    /\ Unauthenticated
    /\ req.pathname = "/terms"
    /\ MarkerPresent
    /\ Allow
    /\ line = 102

\* C5  An authenticated request without active organization, on a path that
\* is neither api nor a verification path, is allowed when the path is
\* exactly /onboarding and redirected to /onboarding otherwise, public paths
\* included; on /onboarding it is never redirected.
C5_NoOrganization ==
    (/\ Decided
     /\ AuthenticatedNoOrg
     /\ ~isApiRoute(req)
     /\ req.pathname \notin SignInVerifyPaths)
    => IF req.pathname = "/onboarding" THEN Allow ELSE RedirectTo("/onboarding")

\* a user without organization on the public sign-in page
C5_Witness ==
    /\ Decided
    /\ AuthenticatedNoOrg
    /\ req.pathname = "/sign-in"
    /\ RedirectTo("/onboarding")
    /\ line = 96

\* C6  An authenticated request with an active organization is allowed on
\* every protected path (/org*, /settings*); in particular on the dashboard
\* of its own organization, the target of the dashboard redirect.
C6_ProtectedAllowed ==
    \A s \in OrgSlugs :
        (/\ Decided
         /\ AuthenticatedWithOrg(s)
         /\ isProtectedRoute(req) \/ req.pathname = DashboardOf(s))
        => Allow

\* a member of organization a on the dashboard of a
C6_Witness ==
    /\ Decided
    /\ AuthenticatedWithOrg("a")
    /\ req.pathname = "/org/a/dashboard"
    /\ Allow
    /\ line = 75

\* C7 as stated: an authenticated request with an active organization on any
\* path of the auth category (/sign-in*, /sign-up*) is redirected to the
\* dashboard of its organization, never allowed or redirected elsewhere.
C7_AuthPagesRedirected ==
    \A s \in OrgSlugs :
        (/\ Decided
         /\ AuthenticatedWithOrg(s)
         /\ isAuthRoute(req))
        => RedirectTo(DashboardOf(s))

\* C7  amended: an authenticated request with an active organization on a
\* path of the auth category other than the two verification paths is
\* redirected to the dashboard of its organization; on the verification
\* paths the verification gate decides instead (allowed with the attempt
\* marker, redirected to /sign-in without the cookie).
C7_AuthPagesRedirectedExceptVerify ==
    \A s \in OrgSlugs :
        (/\ Decided
         /\ AuthenticatedWithOrg(s)
         /\ isAuthRoute(req))
        => IF req.pathname \notin SignInVerifyPaths THEN RedirectTo(DashboardOf(s))
           ELSE /\ MarkerPresent => Allow
                /\ MarkerAbsent => RedirectTo("/sign-in")

\* a member of organization b on a page below /sign-up
C7_Witness ==
    /\ Decided
    /\ AuthenticatedWithOrg("b")
    /\ req.pathname = "/sign-up/a"
    /\ RedirectTo("/org/b/dashboard")

\* C8  An authenticated request with an active organization is allowed on a
\* public path that is neither the root, nor in the auth category, nor a
\* verification path.
C8_PublicPagesAllowed ==
    (/\ Decided
     /\ \E s \in OrgSlugs : AuthenticatedWithOrg(s)
     /\ isPublicRoute(req)
     /\ ~isRootRoute(req)
     /\ ~isAuthRoute(req)
     /\ req.pathname \notin SignInVerifyPaths)
    => Allow

\* an organization member reading /privacy
C8_Witness ==
    /\ Decided
    /\ AuthenticatedWithOrg("a")
    /\ req.pathname = "/privacy"
    /\ Allow
    /\ line = 76

\* C9  An authenticated request with active organization slug s whose path is
\* not api, not a verification path, not protected and not an exempt public
\* page is redirected, without query, to exactly /org/s/dashboard: the slug
\* of the session, not anything of the requested path.
C9_DashboardRedirect ==
    \A s \in OrgSlugs :
        (/\ Decided
         /\ AuthenticatedWithOrg(s)
         /\ ~isApiRoute(req)
         /\ req.pathname \notin SignInVerifyPaths
         /\ ~isProtectedRoute(req)
         /\ ~(isPublicRoute(req) /\ ~isRootRoute(req) /\ ~isAuthRoute(req)))
        => RedirectTo(DashboardOf(s))

\* a member of organization b on an unclassified path that names a
C9_Witness ==
    /\ Decided
    /\ AuthenticatedWithOrg("b")
    /\ req.pathname = "/a/a/dashboard"
    /\ RedirectTo("/org/b/dashboard")
    /\ line = 77

\* C10 as stated: every authenticated request to /onboarding is allowed,
\* with or without an active organization.
C10_OnboardingAlwaysAllowed ==
    (/\ Decided
     /\ req.sessionData # None
     /\ req.pathname = "/onboarding")
    => Allow

\* C10 amended: an authenticated request to /onboarding is allowed when the
\* session has no active organization (the slug null or empty); when it has
\* one, the request is redirected to the dashboard of that organization.
C10_OnboardingByOrganization ==
    (/\ Decided
     /\ req.sessionData # None
     /\ req.pathname = "/onboarding")
    => IF \E s \in OrgSlugs : AuthenticatedWithOrg(s)
       THEN \E s \in OrgSlugs : AuthenticatedWithOrg(s) /\ RedirectTo(DashboardOf(s))
       ELSE Allow

\* a session whose slug is empty, on /onboarding
C10_Witness ==
    /\ Decided
    /\ req.sessionData = Some([activeOrganizationSlug |-> Some("")])
    /\ req.pathname = "/onboarding"
    /\ Allow
    /\ line = 82

-----------------------------------------------------------------------------
(* The ordered rule list: rule k is the k-th if of proxy, rule 7 the final *)
(* return.  RuleGuard(k) is the condition of rule k, RuleOf(l) the rule    *)
(* the return statement on line l belongs to.                              *)

ReturnLines == {60, 69, 70, 75, 76, 77, 82, 89, 96, 98, 102}

RedirectLines == {70, 77, 89, 96}

RuleOf(l) ==
    CASE l = 60 -> 1
      [] l \in {69, 70} -> 2
      [] l \in {75, 76, 77} -> 3
      [] l = 82 -> 4
      [] l = 89 -> 5
      [] l \in {96, 98} -> 6
      [] l = 102 -> 7
      [] OTHER -> 0

RuleGuard(k) ==
    CASE k = 1 -> isApiRoute(req)
      [] k = 2 -> isSignInVerifyRoute(req)
      [] k = 3 -> isAuthenticated(req) /\ Truthy(activeOrganizationSlug(req))
      [] k = 4 -> isAuthenticated(req) /\ isOnboardingRoute(req)
      [] k = 5 -> ~isAuthenticated(req) /\ ~isPublicRoute(req)
      [] k = 6 -> isAuthenticated(req) /\ ~Truthy(activeOrganizationSlug(req))
      [] OTHER -> TRUE

\* C11 Totality: whatever the path, the session state and the attempt cookie
\* are, proxy can be run and yields exactly one decision, NextResponse.next()
\* or a redirect to a URL, from a return statement of exactly one rule: the
\* first rule of the ordered list whose condition holds.
C11_Totality ==
    /\ res = Pending => ENABLED Proxy
    /\ Decided =>
        /\ line \in ReturnLines
        /\ IF line \in RedirectLines
           THEN /\ res.type = "redirect"
                /\ DOMAIN res = {"type", "url"}
                /\ Len(res.url.pathname) > 0
           ELSE res = NextResponse_next
        /\ RuleGuard(RuleOf(line))
        /\ \A j \in 1..(RuleOf(line) - 1) : ~RuleGuard(j)

\* the last rule deciding: no session, the root path, an empty attempt cookie
C11_Witness ==
    /\ Decided
    /\ Unauthenticated
    /\ req.pathname = "/"
    /\ req.cookie = Some("")
    /\ line = 102
    /\ Allow

\* C12 Determinism and statelessness: the route lists of the matchers are
\* those of start-up at all times, and whenever a request equal to an earlier
\* one is decided, however many requests were decided in between, it gets the
\* response the earlier one got.
C12_Deterministic ==
    /\ matchers = StartupMatchers
    /\ (Decided /\ memo # None /\ memo[1].req = req) => memo[1].res = res

\* the verification page asked for again later, redirected both times
C12_Witness ==
    /\ Decided
    /\ memo # None
    /\ memo[1].req = req
    /\ req.pathname = "/sign-in/verify"
    /\ MarkerAbsent
    /\ memo[1].res.type = "redirect"
    /\ res = memo[1].res

-----------------------------------------------------------------------------
(* The route classifier as the specification words it: an exact route, or  *)
(* a prefix route written as a base followed by the wildcard marker.       *)

IsPrefixRoute(route) ==
    /\ Len(route) >= Len(Wildcard)
    /\ SubSeq(route, Len(route) - Len(Wildcard) + 1, Len(route)) = Wildcard

BaseOf(route) == SubSeq(route, 1, Len(route) - Len(Wildcard))

RouteAccepts(route, path) ==
    IF IsPrefixRoute(route)
    THEN path = BaseOf(route) \/ startsWith(path, BaseOf(route) \o "/")
    ELSE path = route

\* the route lists tried: those of the seven matchers, the empty list, and
\* lists that mix exact and prefix routes in either order
RouteLists ==
    {matchers[m] : m \in DOMAIN matchers}
        \cup {<<>>, <<"/home", "/org(.*)">>, <<"/org(.*)", "/home">>, <<"(.*)">>}

\* C13 Route classifier semantics: for every route list and every path the
\* matcher made by createRouteMatcher accepts the path iff some route of the
\* list accepts it, an exact route p accepting exactly the path p and a
\* prefix route with base b accepting exactly b and the paths that start
\* with b followed by "/".
C13_ClassifierSemantics ==
    Decided =>
        \A routes \in RouteLists :
            createRouteMatcher(routes, req)
                <=> \E i \in 1..Len(routes) : RouteAccepts(routes[i], req.pathname)

-----------------------------------------------------------------------------
\* C14 A redirect carries query parameters only when the sign-in redirect
\* for unauthenticated requests to non-public paths (line 89) produces it,
\* and then exactly one: redirect, with the requested path as value.  The
\* redirects of the verification gate, to /onboarding and to the dashboard
\* carry none.
C14_QueryOnlyOnSignInRedirect ==
    (Decided /\ res.type = "redirect")
    => IF Unauthenticated /\ ~isPublicRoute(req) /\ ~isApiRoute(req)
       THEN /\ line = 89
            /\ res.url.searchParams = << <<"redirect", req.pathname>> >>
       ELSE /\ line \in {70, 77, 96}
            /\ res.url.searchParams = <<>>

\* the verification gate sends an unauthenticated client to a bare /sign-in
C14_Witness ==
    /\ Decided
    /\ Unauthenticated
    /\ req.pathname = "/sign-in/verify"
    /\ req.cookie = Some("")
    /\ line = 70
    /\ res.type = "redirect"
    /\ res.url = [pathname |-> "/sign-in", searchParams |-> <<>>]

proxyWithoutRule4(request) ==
    IF isApiRoute(request) THEN Return(NextResponse_next, 60)
    ELSE IF isSignInVerifyRoute(request) THEN signInVerifyBranch(request)
    ELSE IF hasOrganization(request) THEN organizationBranch(request)
    ELSE IF unauthenticatedNonPublic(request) THEN signInRedirect(request)
    ELSE IF noOrganization(request) THEN onboardingBranch(request)
    ELSE Return(NextResponse_next, 102)

\* C16 The onboarding allowance (line 82) decides only requests to
\* /onboarding of authenticated sessions without organization, and it is
\* redundant: proxy without it gives every request the same response, the
\* Allow of line 98 standing in for it; as it is, line 98 is never reached.
C16_Rule4Redundant ==
    Decided =>
        /\ line = 82 => /\ req.sessionData # None
                        /\ ~Truthy(req.sessionData[1].activeOrganizationSlug)
                        /\ req.pathname = "/onboarding"
        /\ res = proxyWithoutRule4(req).response
        /\ line = 82 => proxyWithoutRule4(req).line = 98
        /\ line # 82 => proxyWithoutRule4(req).line = line
        /\ line # 98

\* a user without organization on /onboarding: line 82 decides, line 98 would
C16_Witness ==
    /\ Decided
    /\ AuthenticatedNoOrg
    /\ req.pathname = "/onboarding"
    /\ line = 82
    /\ Allow
    /\ proxyWithoutRule4(req) = Return(NextResponse_next, 98)

-----------------------------------------------------------------------------
\* C17 The session state the rules use has an organization slug only when
\* the request is authenticated, and an unauthenticated request is either
\* allowed or redirected to /sign-in: never to /onboarding or to a dashboard.
C17_UnauthenticatedOnlySignIn ==
    /\ ~isAuthenticated(req) => activeOrganizationSlug(req) = None
    /\ (Decided /\ Unauthenticated)
       => \/ Allow
          \/ res.type = "redirect" /\ res.url.pathname = "/sign-in"

\* /onboarding without a session: sent to /sign-in, not let in
C17_Witness ==
    /\ Decided
    /\ Unauthenticated
    /\ activeOrganizationSlug(req) = None
    /\ req.pathname = "/onboarding"
    /\ line = 89
    /\ res.type = "redirect"
    /\ res.url.pathname = "/sign-in"

\* C18 No redirect loop: with session and attempt cookie fixed, requesting
\* again the target of each redirect reaches an allowed path after at most
\* two redirects and never requests a path twice.  Two redirects happen only
\* from a verification path without attempt marker for an authenticated
\* session: to /sign-in, then to /onboarding or to the dashboard.
C18_NoRedirectLoop ==
    /\ Len(trail) <= 2
    /\ (Decided /\ Len(trail) = 2) => Allow
    /\ \A i \in 1..Len(trail) :
          /\ trail[i] # req.pathname
          /\ \A j \in 1..Len(trail) : trail[i] = trail[j] => i = j
    /\ Len(trail) = 2 =>
          /\ trail[1] \in SignInVerifyPaths
          /\ ~MarkerPresent
          /\ req.sessionData # None
          /\ trail[2] = "/sign-in"
          /\ req.pathname \in {"/onboarding"} \cup {DashboardOf(s) : s \in OrgSlugs}

\* the longest chain: verification page, /sign-in, the dashboard, allowed
C18_Witness ==
    /\ Decided
    /\ AuthenticatedWithOrg("b")
    /\ trail = <<"/sign-up/verify-email-address", "/sign-in">>
    /\ req.pathname = "/org/b/dashboard"
    /\ Allow

\* C19 No protected content leak: a request to a protected path (/org*,
\* /settings*) is allowed only when it is authenticated with a non-empty
\* organization slug; unauthenticated it is redirected to /sign-in, and
\* authenticated without organization to /onboarding, whatever the attempt
\* cookie is.
C19_NoProtectedLeak ==
    (Decided /\ isProtectedRoute(req))
    => /\ Allow => /\ req.sessionData # None
                   /\ Truthy(req.sessionData[1].activeOrganizationSlug)
       /\ Unauthenticated => res.type = "redirect" /\ res.url.pathname = "/sign-in"
       /\ (req.sessionData # None /\ ~Truthy(req.sessionData[1].activeOrganizationSlug))
          => RedirectTo("/onboarding")

\* a settings page asked for without organization, an attempt cookie around
C19_Witness ==
    /\ Decided
    /\ AuthenticatedNoOrg
    /\ MarkerPresent
    /\ req.pathname = "/settings/a"
    /\ RedirectTo("/onboarding")

\* C20 Every redirect goes to /sign-in, to /onboarding or to the dashboard
\* of the session's own organization; the requested path does not enter the
\* target and shows up at most as the value of the redirect parameter.
C20_ThreeRedirectTargets ==
    (Decided /\ res.type = "redirect")
    => /\ res.url.pathname \in
            {"/sign-in", "/onboarding"}
                \cup {DashboardOf(s) : s \in {t \in OrgSlugs : AuthenticatedWithOrg(t)}}
       /\ res.url.searchParams \in {<<>>, << <<"redirect", req.pathname>> >>}

\* the root path asked for by a member of organization b
C20_Witness ==
    /\ Decided
    /\ AuthenticatedWithOrg("b")
    /\ req.pathname = "/"
    /\ trail = <<>>
    /\ res.type = "redirect"
    /\ res.url.pathname = "/org/b/dashboard"

-----------------------------------------------------------------------------
\* C21 The literal equality test applies to wildcard routes too: a path that
\* is character for character the text of a wildcard route b(.*) is accepted
\* by every matcher whose list has that route, although it is neither b nor
\* below b/.  So an unauthenticated request to the path /api(.*) counts as
\* api and is allowed by the API bypass instead of redirected to /sign-in.
C21_RawRouteTextMatches ==
    Decided =>
        /\ \A m \in DOMAIN matchers : \A i \in 1..Len(matchers[m]) :
              (IsPrefixRoute(matchers[m][i]) /\ req.pathname = matchers[m][i])
              => /\ createRouteMatcher(matchers[m], req)
                 /\ ~RouteAccepts(matchers[m][i], req.pathname)
        /\ (Unauthenticated /\ req.pathname = "/api(.*)")
           => isApiRoute(req) /\ Allow /\ line = 60

\* the path /api(.*) asked for without a session
C21_Witness ==
    /\ Decided
    /\ Unauthenticated
    /\ req.pathname = "/api(.*)"
    /\ req.pathname = matchers.isApiRoute[1]
    /\ ~RouteAccepts(matchers.isApiRoute[1], req.pathname)
    /\ isApiRoute(req)
    /\ Allow
    /\ line = 60

\* the request as it would be with another session cookie / attempt cookie
WithSession(sessionData) == [req EXCEPT !.sessionData = sessionData]

WithCookie(cookie) == [req EXCEPT !.cookie = cookie]

\* C22 The slug in the requested path is never compared with the session's:
\* a user whose active organization is s is allowed on /org/t/... for every
\* t, equal to s or not, and on a protected path gets the response that any
\* other active organization would get.
C22_PathSlugNotCompared ==
    \A s \in OrgSlugs :
        (Decided /\ AuthenticatedWithOrg(s) /\ isProtectedRoute(req))
        => /\ Allow
           /\ line = 75
           /\ \A t \in OrgSlugs :
                 res = proxy(WithSession(Some([activeOrganizationSlug |-> Some(t)]))).response

\* a member of organization b on the dashboard of organization a
C22_Witness ==
    /\ Decided
    /\ AuthenticatedWithOrg("b")
    /\ req.pathname = "/org/a/dashboard"
    /\ req.pathname # DashboardOf("b")
    /\ Allow
    /\ line = 75

\* C23 An attempt cookie whose value is the empty string counts as no
\* cookie: on both verification paths the request is then redirected to
\* /sign-in, whatever the session is, as it is without the cookie; only a
\* non-empty value opens the gate.
C23_EmptyMarkerIsAbsent ==
    (Decided /\ req.pathname \in SignInVerifyPaths)
    => /\ req.cookie = Some("")
          => /\ RedirectTo("/sign-in")
             /\ res = proxy(WithCookie(None)).response
       /\ Allow <=> (req.cookie # None /\ req.cookie[1] # "")

\* an organization member with an empty attempt cookie on the verify page
C23_Witness ==
    /\ Decided
    /\ AuthenticatedWithOrg("a")
    /\ req.pathname = "/sign-in/verify"
    /\ req.cookie = Some("")
    /\ RedirectTo("/sign-in")
    /\ line = 70

EmptySlugSession == Some([activeOrganizationSlug |-> Some("")])

NoSlugSession == Some([activeOrganizationSlug |-> None])

\* C24 An authenticated session whose slug is the empty string counts as a
\* session without organization: the organization branch does not decide
\* it, it gets the response the null slug gets, it is redirected to
\* /onboarding from every path that is not api, not a verification path and
\* not /onboarding itself, and no redirect ever goes to /org//dashboard.
C24_EmptySlugIsNoOrganization ==
    Decided =>
        /\ req.sessionData = EmptySlugSession
           => /\ line \notin {75, 76, 77}
              /\ res = proxy(WithSession(NoSlugSession)).response
              /\ (~isApiRoute(req) /\ req.pathname \notin SignInVerifyPaths)
                 => IF req.pathname = "/onboarding" THEN Allow
                    ELSE RedirectTo("/onboarding")
        /\ res.type = "redirect" => res.url.pathname # "/org//dashboard"

\* a protected path asked for with an empty slug
C24_Witness ==
    /\ Decided
    /\ req.sessionData = EmptySlugSession
    /\ req.pathname = "/org/a/dashboard"
    /\ RedirectTo("/onboarding")
    /\ line = 96

====
